---- MODULE Spec2Model ----
(***************************************************************************)
(* A model of chorus' versioned-record storage (core/storage.py), the      *)
(* record type (core/models.py), the version codec (core/versioning.py)    *)
(* and the tracking wrapper (decorators/chorus.py).                        *)
(*                                                                         *)
(* Strings the code takes apart or concatenates (versions, function        *)
(* names, index keys) are sequences of one-character strings.  Python      *)
(* values whose type matters (None, str, float, tuple, list, an arbitrary  *)
(* object) are records tagged with their type in field t.                  *)
(***************************************************************************)
EXTENDS Integers, Sequences, FiniteSets, TLC

VARIABLES
    clock,      \* datetime.now() in whole seconds, as strftime("%Y%m%d_%H%M%S") shows it
    tsFiles,    \* storage root: timestamped snapshots, <<label, second>> -> [mtime, content]
    legacy,     \* storage root: prompts.json, [exists, content]
    mseq,       \* modification-time counter of the storage root (strictly increasing)
    stores,     \* PromptStorage instances: [phase, label, prompts]
    last,       \* the last call and what it returned or raised
    hist,       \* bookkeeping: snapshots at start, adds that wrote, adds that completed
    pend        \* per instance, the _save_prompts in progress (concurrent writers only)

vars == <<clock, tsFiles, legacy, mseq, stores, last, hist, pend>>

(***************************************************************************)
(* Bounds of the model.                                                    *)
(***************************************************************************)
MaxClock == 2
MaxAdds == 2
MaxParts == 3

(***************************************************************************)
(* Characters and integers.                                                *)
(***************************************************************************)
Digits == <<"0", "1", "2", "3", "4", "5", "6", "7", "8", "9">>

Range(s) == {s[i] : i \in 1..Len(s)}

DigitOf(c) == CHOOSE i \in 0..9 : Digits[i + 1] = c

\* The character U+00B2 (superscript two): a digit for str.isdigit(), not for int()
SuperscriptTwo == "^2"

\* str.isdigit(): every character is a digit (Unicode Numeric_Type Digit or Decimal)
isdigit(s) ==
    Len(s) > 0 /\ \A i \in 1..Len(s) : s[i] \in Range(Digits) \cup {SuperscriptTwo}

\* int(s) raises ValueError: s holds a character that is no decimal digit
int_raises(s) == \E i \in 1..Len(s) : s[i] \notin Range(Digits)

RECURSIVE int(_)
int(s) == IF Len(s) = 0 THEN 0
          ELSE 10 * int(SubSeq(s, 1, Len(s) - 1)) + DigitOf(s[Len(s)])

RECURSIVE str(_)
str(n) == IF n < 10 THEN <<Digits[n + 1]>>
          ELSE str(n \div 10) \o <<Digits[(n % 10) + 1]>>

\* s.split(ch)[0]
SplitHead(s, ch) ==
    IF \E i \in 1..Len(s) : s[i] = ch
    THEN SubSeq(s, 1, (CHOOSE i \in 1..Len(s) :
                          s[i] = ch /\ \A j \in 1..(i - 1) : s[j] # ch) - 1)
    ELSE s

\* s.split(ch)
RECURSIVE split(_, _)
split(s, ch) ==
    LET head == SplitHead(s, ch)
    IN  IF Len(head) = Len(s) THEN <<s>>
        ELSE <<head>> \o split(SubSeq(s, Len(head) + 2, Len(s)), ch)

(***************************************************************************)
(* Python values.                                                          *)
(***************************************************************************)
NoneV == [t |-> "None"]
PyStr(s) == [t |-> "str", s |-> s]
PyFloat(x) == [t |-> "float", x |-> x]
PyTime(x) == [t |-> "datetime", x |-> x]
PyList(items) == [t |-> "list", items |-> items]
PyTuple(items) == [t |-> "tuple", items |-> items]
PyDict(items) == [t |-> "dict", items |-> items]
PyObject == [t |-> "object"]
PyInt(n) == [t |-> "int", n |-> n]

\* bool(v) is False
Falsy(v) ==
    \/ v = NoneV
    \/ v.t = "str" /\ v.s = ""
    \/ v.t \in {"list", "tuple", "dict"} /\ v.items = <<>>

(***************************************************************************)
(* Ordered dictionaries: sequences of <<key, value>> with distinct keys,   *)
(* in insertion order.                                                     *)
(***************************************************************************)
Keys(d) == {d[i][1] : i \in 1..Len(d)}

\* d.get(k), for a key of d
Get(d, k) == d[CHOOSE i \in 1..Len(d) : d[i][1] = k][2]

\* d[k] = v
DictSet(d, k, v) ==
    IF k \in Keys(d)
    THEN [i \in 1..Len(d) |-> IF d[i][1] = k THEN <<k, v>> ELSE d[i]]
    ELSE Append(d, <<k, v>>)

Values(d) == [i \in 1..Len(d) |-> d[i][2]]

(***************************************************************************)
(* core/models.py: PromptVersion.                                          *)
(***************************************************************************)
\* hashlib.md5(prompt.encode()).hexdigest()[:8], tabulated for the prompts of the model
md5_8(prompt) ==
    CASE prompt = "p1" -> "ec6ef230"
      [] prompt = "p2" -> "1d665b9b"
      [] OTHER -> "00000000"

\* f"{created_at.strftime('%Y%m%d_%H%M%S')}_{prompt_hash}"
DefaultExecutionId(created_at, prompt_hash) == [ts |-> created_at, tag |-> prompt_hash]

\* a caller-supplied execution id
ExecutionId(tag) == [ts |-> -1, tag |-> tag]

\* No project_version / agent_version attribute on the object
NoAttrs == <<>>

\* PromptVersion.__init__; optional arguments are tagged Python values
PromptVersionInit(prompt, version, function_name, description, tags, created_at, inputs, output, execution_time, execution_id, now) ==
    LET ca == IF Falsy(created_at) THEN now ELSE created_at.x
        ph == md5_8(prompt)
    IN  [ prompt         |-> prompt,
          version        |-> version,
          function_name  |-> function_name,
          description    |-> IF Falsy(description) THEN "" ELSE description.s,
          tags           |-> IF Falsy(tags) THEN <<>> ELSE tags.items,
          created_at     |-> ca,
          prompt_hash    |-> ph,
          inputs         |-> IF Falsy(inputs) THEN <<>> ELSE inputs.items,
          output         |-> output,
          execution_time |-> execution_time,
          execution_id   |-> IF execution_id = NoneV \/ execution_id.tag = ""
                             THEN DefaultExecutionId(ca, ph) ELSE execution_id,
          extra          |-> NoAttrs ]

RequiredFields == {"prompt", "version", "function_name", "created_at"}

AllFields == RequiredFields \cup {"description", "tags", "prompt_hash", "inputs",
                                  "output", "execution_time", "execution_id"}

\* datetime.isoformat() / the text of an ISO-8601 timestamp
isoformat(t) == [iso |-> t]

\* a created_at string datetime.fromisoformat rejects
BadIso == [iso |-> -1]

\* PromptVersion.to_dict
to_dict(pv) ==
    [ present        |-> AllFields,
      prompt         |-> pv.prompt,
      version        |-> pv.version,
      function_name  |-> pv.function_name,
      description    |-> pv.description,
      tags           |-> pv.tags,
      created_at     |-> isoformat(pv.created_at),
      prompt_hash    |-> pv.prompt_hash,
      inputs         |-> pv.inputs,
      output         |-> pv.output,
      execution_time |-> pv.execution_time,
      execution_id   |-> pv.execution_id ]

\* What PromptVersion.from_dict raises on a persisted entry, "" when nothing
from_dict_error(data) ==
    IF ~(RequiredFields \subseteq data.present) THEN "KeyError"
    ELSE IF data.created_at = BadIso THEN "ValueError"
    ELSE ""

\* from_dict that leaves the execution trace to the constructor's defaults
from_dict_untraced(data) ==
    PromptVersionInit(
        data.prompt, data.version, data.function_name,
        IF "description" \in data.present THEN PyStr(data.description) ELSE NoneV,
        IF "tags" \in data.present THEN PyList(data.tags) ELSE PyList(<<>>),
        PyTime(data.created_at.iso),
        NoneV, NoneV, NoneV,
        IF "execution_id" \in data.present THEN data.execution_id ELSE NoneV,
        0)

\* PromptVersion.from_dict, for an entry it accepts
from_dict(data) ==
    PromptVersionInit(
        data.prompt, data.version, data.function_name,
        IF "description" \in data.present THEN PyStr(data.description) ELSE NoneV,
        IF "tags" \in data.present THEN PyList(data.tags) ELSE PyList(<<>>),
        PyTime(data.created_at.iso),
        IF "inputs" \in data.present THEN PyDict(data.inputs) ELSE PyDict(<<>>),
        IF "output" \in data.present THEN data.output ELSE NoneV,
        IF "execution_time" \in data.present THEN data.execution_time ELSE NoneV,
        IF "execution_id" \in data.present THEN data.execution_id ELSE NoneV,
        0)

(***************************************************************************)
(* json.dump / json.load as core/storage.py uses them.                     *)
(***************************************************************************)
\* The value json.load gives back for a value json.dump wrote
JsonValue(v) == IF v.t = "tuple" THEN PyList(v.items) ELSE v

\* json.dump raises TypeError on it
Unserializable(v) == v.t = "object"

JsonEntry(e) ==
    [e EXCEPT !.output = JsonValue(e.output),
              !.inputs = [i \in 1..Len(e.inputs) |->
                             <<e.inputs[i][1], JsonValue(e.inputs[i][2])>>]]

EntrySerializable(e) ==
    /\ ~Unserializable(e.output)
    /\ \A i \in 1..Len(e.inputs) : ~Unserializable(e.inputs[i][2])

\* The content of a file: parsable JSON (an object, as items in file order) or not
Malformed == [ok |-> FALSE, items |-> <<>>]
JsonObject(items) == [ok |-> TRUE, items |-> items]

\* What open(file, 'w'); json.dump(data, f, indent=2) leaves in the file; a
\* TypeError part-way leaves a truncated document
json_dump(data) ==
    IF \A i \in 1..Len(data) : EntrySerializable(data[i][2])
    THEN JsonObject([i \in 1..Len(data) |-> <<data[i][1], JsonEntry(data[i][2])>>])
    ELSE Malformed

json_dump_raises(data) == \E i \in 1..Len(data) : ~EntrySerializable(data[i][2])

(***************************************************************************)
(* core/versioning.py: parse_version_parts.                                *)
(***************************************************************************)
parse_version_parts(version) ==
    LET clean_version == SplitHead(SplitHead(version, "-"), "+")
        parts == split(clean_version, ".")
        major == IF Len(parts) > 0 /\ isdigit(parts[1]) THEN int(parts[1]) ELSE 0
        minor == IF Len(parts) > 1 /\ isdigit(parts[2]) THEN int(parts[2]) ELSE 0
        patch == IF Len(parts) > 2 /\ isdigit(parts[3]) THEN int(parts[3]) ELSE 0
    IN  <<major, minor, patch>>

\* parse_version_parts raises ValueError: int() of one of the first three parts does
parse_version_parts_raises(version) ==
    LET parts == split(SplitHead(SplitHead(version, "-"), "+"), ".")
    IN  \E i \in 1..3 : i <= Len(parts) /\ isdigit(parts[i]) /\ int_raises(parts[i])

\* Python's tuple comparison a < b on triples of integers
TupleLess(a, b) ==
    \/ a[1] < b[1]
    \/ a[1] = b[1] /\ a[2] < b[2]
    \/ a[1] = b[1] /\ a[2] = b[2] /\ a[3] < b[3]

(***************************************************************************)
(* core/storage.py: PromptStorage.                                         *)
(***************************************************************************)
\* storage_path / f"prompts_{source_filename}_{timestamp}.json"
SnapshotName(source_filename, timestamp) == <<source_filename, timestamp>>

\* list_timestamped_files: the names matching prompts_*.json, newest modification first
RECURSIVE list_timestamped_files(_)
list_timestamped_files(files) ==
    IF DOMAIN files = {} THEN <<>>
    ELSE LET newest == CHOOSE n \in DOMAIN files :
                           \A m \in DOMAIN files : files[m].mtime <= files[n].mtime
         IN  <<newest>> \o
             list_timestamped_files([m \in DOMAIN files \ {newest} |-> files[m]])

CaughtJsonOnly == {"JSONDecodeError"}

\* The exceptions _load_prompts catches
Caught == {"JSONDecodeError", "KeyError"}

\* for k, v in data.items(): self.prompts[k] = PromptVersion.from_dict(v), the first n items
RECURSIVE LoadItems(_, _, _)
LoadItems(items, n, prompts) ==
    IF n = 0 THEN prompts
    ELSE DictSet(LoadItems(items, n - 1, prompts), items[n][1], from_dict(items[n][2]))

\* json.load(f) and the loop over its items, on top of the index so far:
\* the index when the block ends and the exception that ended it ("" when none)
load_file(content, prompts) ==
    IF ~content.ok THEN [prompts |-> prompts, exc |-> "JSONDecodeError"]
    ELSE LET items == content.items
             bad == {i \in 1..Len(items) : from_dict_error(items[i][2]) # ""}
             stop == IF bad = {} THEN Len(items) + 1
                     ELSE CHOOSE i \in bad : \A j \in bad : i <= j
         IN  [ prompts |-> LoadItems(items, stop - 1, prompts),
               exc |-> IF bad = {} THEN "" ELSE from_dict_error(items[stop][2]) ]

\* The legacy part of _load_prompts (lines 41-50)
load_legacy(leg, prompts, log) ==
    IF ~leg.exists THEN [prompts |-> prompts, exc |-> "", log |-> log]
    ELSE LET r == load_file(leg.content, prompts)
             lg == Append(log, <<"legacy", r.exc>>)
         IN  IF r.exc = "" THEN [prompts |-> r.prompts, exc |-> "", log |-> lg]
             ELSE IF r.exc \in Caught THEN [prompts |-> <<>>, exc |-> "", log |-> lg]
             ELSE [prompts |-> r.prompts, exc |-> r.exc, log |-> lg]

\* _load_prompts: the index, the exception that escapes ("" when none), and the
\* files read with what each read raised
_load_prompts(files, leg) ==
    LET timestamped_files == list_timestamped_files(files)
    IN  IF timestamped_files # <<>>
        THEN LET r == load_file(files[timestamped_files[1]].content, <<>>)
                 lg == << <<"timestamped", r.exc>> >>
             IN  IF r.exc = "" THEN [prompts |-> r.prompts, exc |-> "", log |-> lg]
                 ELSE IF r.exc \in Caught THEN load_legacy(leg, r.prompts, lg)
                 ELSE [prompts |-> r.prompts, exc |-> r.exc, log |-> lg]
        ELSE load_legacy(leg, <<>>, <<>>)

\* data = {k: v.to_dict() for k, v in self.prompts.items()}
SaveData(prompts) == [i \in 1..Len(prompts) |-> <<prompts[i][1], to_dict(prompts[i][2])>>]

\* open(name, 'w') and json.dump into it
WriteFile(files, name, mtime, content) ==
    [n \in DOMAIN files \cup {name} |->
        IF n = name THEN [mtime |-> mtime, content |-> content] ELSE files[n]]

\* add_prompt's key, for an object that has the two attributes
AddKey(pv) == pv.function_name \o <<"_">> \o pv.extra[1] \o <<"_">> \o str(pv.extra[2])

\* get_prompt's key
GetKey(function_name, project_version, agent_version) ==
    function_name \o <<"_">> \o project_version \o <<"_">> \o str(agent_version)

\* get_prompt_by_combined_version's key
CombinedKey(function_name, version) == function_name \o <<"_">> \o version

\* self.prompts.get(key)
Lookup(prompts, key) == IF key \in Keys(prompts) THEN Get(prompts, key) ELSE NoneV

\* [pv for pv in self.prompts.values() if pv.function_name == function_name]
VersionsOf(prompts, function_name) ==
    SelectSeq(Values(prompts), LAMBDA pv : pv.function_name = function_name)

IntLess(a, b) == a < b

agent_version(pv) == pv.extra[2]

project_version_key(pv) == parse_version_parts(pv.extra[1])

\* max(versions, key=lambda x: x.agent_version): the first element of greatest key
max_agent_version(versions) ==
    versions[CHOOSE i \in 1..Len(versions) :
                /\ \A j \in 1..Len(versions) :
                       ~IntLess(agent_version(versions[i]), agent_version(versions[j]))
                /\ \A j \in 1..(i - 1) :
                       IntLess(agent_version(versions[j]), agent_version(versions[i]))]

\* max(versions, key=lambda x: self._parse_version(x.project_version))
max_project_version(versions) ==
    versions[CHOOSE i \in 1..Len(versions) :
                /\ \A j \in 1..Len(versions) :
                       ~TupleLess(project_version_key(versions[i]),
                                  project_version_key(versions[j]))
                /\ \A j \in 1..(i - 1) :
                       TupleLess(project_version_key(versions[j]),
                                 project_version_key(versions[i]))]

\* get_latest_version: [kind, rec, exc]
get_latest_version(prompts, function_name) ==
    LET versions == VersionsOf(prompts, function_name)
    IN  IF versions = <<>> THEN [kind |-> "None", rec |-> NoneV, exc |-> ""]
        ELSE IF \E i \in 1..Len(versions) : versions[i].extra = NoAttrs
        THEN [kind |-> "raise", rec |-> NoneV, exc |-> "AttributeError"]
        ELSE [kind |-> "record", rec |-> max_agent_version(versions), exc |-> ""]

\* get_latest_project_version: [kind, rec, exc]
get_latest_project_version(prompts, function_name) ==
    LET versions == VersionsOf(prompts, function_name)
    IN  IF versions = <<>> THEN [kind |-> "None", rec |-> NoneV, exc |-> ""]
        ELSE IF \E i \in 1..Len(versions) : versions[i].extra = NoAttrs
        THEN [kind |-> "raise", rec |-> NoneV, exc |-> "AttributeError"]
        ELSE [kind |-> "record", rec |-> max_project_version(versions),
              exc |-> ""]

(***************************************************************************)
(* core/versioning.py: bump_version, analyze_prompt_changes.               *)
(***************************************************************************)
bump_version_unreset(current_version, bump_type) ==
    LET parts == parse_version_parts(current_version)
        dot == <<".">>
    IN  IF bump_type = "major"
        THEN str(parts[1] + 1) \o dot \o str(parts[2]) \o dot \o str(parts[3])
        ELSE IF bump_type = "minor"
        THEN str(parts[1]) \o dot \o str(parts[2] + 1) \o dot \o str(parts[3])
        ELSE str(parts[1]) \o dot \o str(parts[2]) \o dot \o str(parts[3] + 1)

bump_version(current_version, bump_type) ==
    LET parts == parse_version_parts(current_version)
        dot == <<".">>
    IN  IF bump_type = "major" THEN str(parts[1] + 1) \o dot \o <<"0">> \o dot \o <<"0">>
        ELSE IF bump_type = "minor"
        THEN str(parts[1]) \o dot \o str(parts[2] + 1) \o dot \o <<"0">>
        ELSE str(parts[1]) \o dot \o str(parts[2]) \o dot \o str(parts[3] + 1)

(***************************************************************************)
(* core/versioning.py: is_valid_version.  re.match is modelled by the set   *)
(* of positions at which each piece of the pattern can end, from left to   *)
(* right; \d is a decimal digit (the superscript two is none).             *)
(***************************************************************************)
AsciiLetters ==
    {"a", "b", "c", "d", "e", "f", "g", "h", "i", "j", "k", "l", "m", "n", "o", "p", "q",
     "r", "s", "t", "u", "v", "w", "x", "y", "z", "A", "B", "C", "D", "E", "F", "G", "H",
     "I", "J", "K", "L", "M", "N", "O", "P", "Q", "R", "S", "T", "U", "V", "W", "X", "Y",
     "Z"}

\* [0-9a-zA-Z-]
IdChars == AsciiLetters \cup Range(Digits) \cup {"-"}

\* The characters str.strip() removes
Whitespace == {" ", "\t", "\n", "\r"}

\* s.strip()
RECURSIVE strip(_)
strip(s) ==
    IF Len(s) > 0 /\ s[1] \in Whitespace THEN strip(Tail(s))
    ELSE IF Len(s) > 0 /\ s[Len(s)] \in Whitespace THEN strip(SubSeq(s, 1, Len(s) - 1))
    ELSE s

\* Every character of s[i..j-1] is in chars
AllIn(s, i, j, chars) == \A k \in i..(j - 1) : s[k] \in chars

\* (0|[1-9]\d*) matched from position i: the positions after its matches
re_numeric(s, i) ==
    {j \in (i + 1)..(Len(s) + 1) :
        \/ j = i + 1 /\ s[i] = "0"
        \/ s[i] \in Range(Digits) \ {"0"} /\ AllIn(s, i + 1, j, Range(Digits))}

\* (?:0|[1-9]\d*|\d*[a-zA-Z-][0-9a-zA-Z-]*) matched from position i
re_prerelease_id(s, i) ==
    re_numeric(s, i) \cup
    {j \in (i + 1)..(Len(s) + 1) :
        \E k \in i..(j - 1) : /\ AllIn(s, i, k, Range(Digits))
                              /\ s[k] \in AsciiLetters \cup {"-"}
                              /\ AllIn(s, k + 1, j, IdChars)}

\* [0-9a-zA-Z-]+ matched from position i
re_build_id(s, i) == {j \in (i + 1)..(Len(s) + 1) : AllIn(s, i, j, IdChars)}

\* The literal ch matched from one of the positions P
re_char(s, P, ch) == {i + 1 : i \in {k \in P : k <= Len(s) /\ s[k] = ch}}

\* ID(?:\.ID)* with ID a pre-release identifier, matched from one of the positions P
RECURSIVE re_prerelease(_, _)
re_prerelease(s, P) ==
    LET ends == UNION {re_prerelease_id(s, i) : i \in P}
    IN  IF ends = {} THEN {} ELSE ends \cup re_prerelease(s, re_char(s, ends, "."))

\* ID(?:\.ID)* with ID a build identifier, matched from one of the positions P
RECURSIVE re_build(_, _)
re_build(s, P) ==
    LET ends == UNION {re_build_id(s, i) : i \in P}
    IN  IF ends = {} THEN {} ELSE ends \cup re_build(s, re_char(s, ends, "."))

\* The positions after NUM\.NUM\.NUM
re_core(s) ==
    UNION {re_numeric(s, k) :
        k \in re_char(s, UNION {re_numeric(s, j) :
                  j \in re_char(s, re_numeric(s, 1), ".")}, ".")}

\* The positions after the optional -PRERELEASE, from the positions P
re_opt_prerelease(s, P) == P \cup re_prerelease(s, re_char(s, P, "-"))

\* The positions after the optional +BUILD, from the positions P
re_opt_build(s, P) == P \cup re_build(s, re_char(s, P, "+"))

\* $: the end of the string, or just before a newline that ends it
re_end(s, P) ==
    \/ Len(s) + 1 \in P
    \/ Len(s) > 0 /\ s[Len(s)] = "\n" /\ Len(s) \in P

\* bool(re.match(pattern, s))
re_match(s) == re_end(s, re_opt_build(s, re_opt_prerelease(s, re_core(s))))

\* is_valid_version(version), version any Python value
is_valid_version(version) ==
    IF version.t # "str" THEN FALSE
    ELSE IF Len(version.s) = 0 THEN FALSE
    ELSE re_match(strip(version.s))

(***************************************************************************)
(* core/versioning.py: analyze_prompt_changes.  A prompt is a string; its  *)
(* text is taken apart as the sequence of its characters.                  *)
(***************************************************************************)
\* The characters of a string
Chars(text) == [i \in 1..Len(text) |-> SubSeq(text, i, i)]

UpperCase == Chars("ABCDEFGHIJKLMNOPQRSTUVWXYZ")
LowerCase == Chars("abcdefghijklmnopqrstuvwxyz")

\* s.lower(), for ASCII text
lower(s) ==
    [i \in 1..Len(s) |->
        IF s[i] \in Range(UpperCase)
        THEN LowerCase[CHOOSE k \in 1..26 : UpperCase[k] = s[i]]
        ELSE s[i]]

\* re.sub(r'\s+', ' ', s): a run of white space becomes the space at its first place
collapse(s) ==
    LET kept == SelectSeq([i \in 1..Len(s) |->
                              IF s[i] \notin Whitespace THEN <<s[i], TRUE>>
                              ELSE <<" ", i = 1 \/ s[i - 1] \notin Whitespace>>],
                          LAMBDA c : c[2])
    IN  [i \in 1..Len(kept) |-> kept[i][1]]

\* _normalize_prompt(prompt)
_normalize_prompt(prompt) == lower(collapse(strip(Chars(prompt))))

\* keyword in s
Contains(s, keyword) ==
    \E i \in 1..(Len(s) - Len(keyword) + 1) : SubSeq(s, i, i + Len(keyword) - 1) = keyword

\* keyword in new_prompt and keyword not in old_prompt, for one of the keywords
NewOnly(keywords, old_prompt, new_prompt) ==
    \E keyword \in keywords :
        Contains(new_prompt, Chars(keyword)) /\ ~Contains(old_prompt, Chars(keyword))

\* The place of the last character of the word that starts at place i
WordEnd(s, i) ==
    CHOOSE j \in i..Len(s) :
        /\ j = Len(s) \/ s[j + 1] \in Whitespace
        /\ \A k \in i..j : s[k] \notin Whitespace

\* set(s.split()): the words between runs of white space
words(s) ==
    {SubSeq(s, i, WordEnd(s, i)) :
        i \in {k \in 1..Len(s) : s[k] \notin Whitespace
                                 /\ (k = 1 \/ s[k - 1] \in Whitespace)}}

\* [s.strip() for s in prompt.split('.') if s.strip()]
sentences(prompt) == SelectSeq(split(prompt, "."), LAMBDA x : Len(strip(x)) > 0)

abs(n) == IF n < 0 THEN -n ELSE n

max(a, b) == IF a > b THEN a ELSE b

breaking_keywords ==
    {"instead of", "no longer", "removed", "deprecated", "breaking", "change from",
     "replaced with", "completely different", "new approach", "different format",
     "different structure", "different output", "must not", "cannot", "will not",
     "discontinued", "obsolete", "migrate to", "upgrade to", "switch to", "abandoned"}

feature_keywords ==
    {"also", "additionally", "new", "enhanced", "improved", "better", "more", "extra",
     "additional", "further", "extended", "expanded", "support for", "now supports",
     "can also", "in addition", "optionally", "option", "feature", "capability",
     "functionality", "include", "incorporate", "integrate", "combine", "merge"}

functionality_indicators ==
    {"you can now", "it is now possible", "added support", "new feature", "enhanced with",
     "upgraded to include", "now includes", "now provides", "now offers"}

\* _is_major_change with the word similarity taken of empty prompts too
_is_major_change_unguarded(old_prompt, new_prompt) ==
    \/ NewOnly(breaking_keywords, old_prompt, new_prompt)
    \/ /\ Len(split(new_prompt, ".")) > 0 /\ Len(split(old_prompt, ".")) > 0
       /\ 10 * abs(Len(split(new_prompt, ".")) - Len(split(old_prompt, ".")))
              > 6 * max(Len(split(old_prompt, ".")), 1)
    \/ /\ Cardinality(words(old_prompt) \cup words(new_prompt)) > 0
       /\ 4 * Cardinality(words(old_prompt) \cap words(new_prompt))
              < Cardinality(words(old_prompt) \cup words(new_prompt))
    \/ /\ Len(old_prompt) > 0
       /\ 10 * abs(Len(new_prompt) - Len(old_prompt)) > 8 * Len(old_prompt)

\* _is_major_change(old_prompt, new_prompt), on normalized prompts; the ratios are
\* compared as integers: a / b > 0.6 is 10 * a > 6 * b
_is_major_change(old_prompt, new_prompt) ==
    \/ NewOnly(breaking_keywords, old_prompt, new_prompt)
    \/ /\ Len(split(new_prompt, ".")) > 0 /\ Len(split(old_prompt, ".")) > 0
       /\ 10 * abs(Len(split(new_prompt, ".")) - Len(split(old_prompt, ".")))
              > 6 * max(Len(split(old_prompt, ".")), 1)
    \/ /\ Len(new_prompt) > 0 /\ Len(old_prompt) > 0
       /\ Cardinality(words(old_prompt) \cup words(new_prompt)) > 0
       /\ 4 * Cardinality(words(old_prompt) \cap words(new_prompt))
              < Cardinality(words(old_prompt) \cup words(new_prompt))
    \/ /\ Len(old_prompt) > 0
       /\ 10 * abs(Len(new_prompt) - Len(old_prompt)) > 8 * Len(old_prompt)

\* _is_minor_change without the feature keywords
_is_minor_change_unkeyed(old_prompt, new_prompt) ==
    \/ Cardinality(words(new_prompt) \ words(old_prompt)) > 8
    \/ Len(old_prompt) > 0 /\ 10 * Len(new_prompt) > 13 * Len(old_prompt)
    \/ Len(sentences(new_prompt)) > Len(sentences(old_prompt)) + 1
    \/ NewOnly(functionality_indicators, old_prompt, new_prompt)

\* _is_minor_change(old_prompt, new_prompt), on normalized prompts
_is_minor_change(old_prompt, new_prompt) ==
    \/ NewOnly(feature_keywords, old_prompt, new_prompt)
    \/ Cardinality(words(new_prompt) \ words(old_prompt)) > 8
    \/ Len(old_prompt) > 0 /\ 10 * Len(new_prompt) > 13 * Len(old_prompt)
    \/ Len(sentences(new_prompt)) > Len(sentences(old_prompt)) + 1
    \/ NewOnly(functionality_indicators, old_prompt, new_prompt)

\* The classification of two normalized prompts
classify_normalized(old_normalized, new_normalized) ==
    IF _is_major_change(old_normalized, new_normalized) THEN "major"
    ELSE IF _is_minor_change(old_normalized, new_normalized) THEN "minor"
    ELSE "patch"

\* analyze_prompt_changes that classifies the new prompt against the empty one
analyze_prompt_changes_from_empty(old_prompt, new_prompt) ==
    classify_normalized(<<>>, _normalize_prompt(new_prompt))

\* analyze_prompt_changes(old_prompt, new_prompt)
analyze_prompt_changes(old_prompt, new_prompt) ==
    IF old_prompt = new_prompt THEN "patch"
    ELSE classify_normalized(_normalize_prompt(old_prompt), _normalize_prompt(new_prompt))

(***************************************************************************)
(* The values the model draws its inputs from.                             *)
(***************************************************************************)
Stores == {1, 2}

Labels == {"run", "app"}

F == <<"f">>
G == <<"g">>
FunctionNames == {F, G}

V1_0_0 == <<"1", ".", "0", ".", "0">>
V1_1_0 == <<"1", ".", "1", ".", "0">>
V1_9_0 == <<"1", ".", "9", ".", "0">>
V1_10_0 == <<"1", ".", "1", "0", ".", "0">>
Auto == <<"a", "u", "t", "o">>

\* A record as PromptVersion(...) builds it at second now
PlainRecord(now) ==
    PromptVersionInit("p1", V1_0_0, F, NoneV, NoneV, NoneV, NoneV,
                      PyStr("out"), PyFloat(1), NoneV, now)

\* The same kind of object with project_version and agent_version set on it by the caller
WithAttrs(pv, project_version, agent) == [pv EXCEPT !.extra = <<project_version, agent>>]

InputRecords(now) ==
    { PlainRecord(now),
      WithAttrs(PlainRecord(now), V1_10_0, 1),
      WithAttrs(PromptVersionInit("p2", V1_1_0, F, PyStr("d"), PyList(<<"t">>), NoneV,
                                  PyDict(<< <<"q", PyTuple(<<1, 2>>)>> >>),
                                  PyTuple(<<1, 2>>), NoneV, ExecutionId("x1"), now),
                V1_9_0, 2),
      WithAttrs(PromptVersionInit("p1", V1_0_0, G, NoneV, NoneV, NoneV, NoneV,
                                  PyObject, PyFloat(1), NoneV, now),
                V1_0_0, 1) }

\* Entries of the files found in the storage root at start
Entry1 == JsonEntry(to_dict(PlainRecord(0)))
Entry2 == JsonEntry(to_dict(
              PromptVersionInit("p2", V1_1_0, F, PyStr("d"), PyList(<<"t">>), NoneV,
                                NoneV, PyStr("out"), PyFloat(2), NoneV, 0)))
\* only the required fields
EntryMinimal == [Entry2 EXCEPT !.present = RequiredFields, !.description = "", !.tags = <<>>,
                               !.output = NoneV, !.execution_time = NoneV,
                               !.execution_id = ExecutionId("")]
EntryNoPrompt == [Entry2 EXCEPT !.present = AllFields \ {"prompt"}, !.prompt = ""]
EntryBadDate == [Entry2 EXCEPT !.created_at = BadIso]

K1 == CombinedKey(F, V1_0_0)
K2 == CombinedKey(F, V1_1_0)

InitContents ==
    { Malformed,
      JsonObject(<< <<K1, Entry1>>, <<K2, EntryMinimal>> >>),
      JsonObject(<< <<K1, Entry1>>, <<K2, EntryNoPrompt>> >>),
      JsonObject(<< <<K1, Entry1>>, <<K2, EntryBadDate>> >>) }

InitLegacyContents ==
    { Malformed,
      JsonObject(<< <<K2, Entry2>> >>),
      JsonObject(<< <<K2, Entry2>>, <<K1, EntryNoPrompt>> >>) }

NoFiles == [n \in {} |-> [mtime |-> 0, content |-> Malformed]]

\* The decorated functions: the decorator's version argument, the function's name,
\* its docstring prompt ("" when it has none) and whether it raises
Funcs ==
    { [version |-> Auto, name |-> F, prompt |-> "p1", raises |-> FALSE],
      [version |-> V1_1_0, name |-> F, prompt |-> "p2", raises |-> TRUE],
      [version |-> V1_1_0, name |-> G, prompt |-> "p1", raises |-> FALSE],
      [version |-> V1_1_0, name |-> G, prompt |-> "", raises |-> FALSE] }

\* What a wrapped function returns, and str(e) of what it raises
FuncValue == PyStr("out")
FuncError == "boom"

(***************************************************************************)
(* core/storage.py: add_prompt with _save_prompts, on an instance.         *)
(***************************************************************************)
_save_prompts_unmirrored(prompts, source_filename, files, leg, mtime, now) ==
    LET data == SaveData(prompts)
        name == SnapshotName(source_filename, now)
        written == WriteFile(files, name, mtime + 1, json_dump(data))
    IN  [exc |-> IF json_dump_raises(data) THEN "TypeError" ELSE "", files |-> written,
         legacy |-> leg, mtime |-> mtime + 1, name |-> name]

\* _save_prompts: the files after it, and the TypeError json.dump may raise
_save_prompts(prompts, source_filename, files, leg, mtime, now) ==
    LET data == SaveData(prompts)
        name == SnapshotName(source_filename, now)
        written == WriteFile(files, name, mtime + 1, json_dump(data))
    IN  IF json_dump_raises(data)
        THEN [exc |-> "TypeError", files |-> written, legacy |-> leg, mtime |-> mtime + 1,
              name |-> name]
        ELSE [exc |-> "", files |-> written,
              legacy |-> [exists |-> TRUE, content |-> json_dump(data)],
              mtime |-> mtime + 2, name |-> name]

\* add_prompt that reads the index from the storage root before it inserts
add_prompt_refreshed(prompts, source_filename, pv, files, leg, mtime, now) ==
    IF pv.extra = NoAttrs
    THEN [exc |-> "AttributeError", prompts |-> prompts, files |-> files, legacy |-> leg,
          mtime |-> mtime, name |-> SnapshotName(source_filename, now)]
    ELSE [exc |-> _save_prompts(DictSet(_load_prompts(files, leg).prompts, AddKey(pv), pv),
                                source_filename, files, leg, mtime, now).exc,
          prompts |-> DictSet(_load_prompts(files, leg).prompts, AddKey(pv), pv),
          files |-> _save_prompts(DictSet(_load_prompts(files, leg).prompts, AddKey(pv), pv),
                                  source_filename, files, leg, mtime, now).files,
          legacy |-> _save_prompts(DictSet(_load_prompts(files, leg).prompts, AddKey(pv),
                                           pv),
                                   source_filename, files, leg, mtime, now).legacy,
          mtime |-> _save_prompts(DictSet(_load_prompts(files, leg).prompts, AddKey(pv), pv),
                                  source_filename, files, leg, mtime, now).mtime,
          name |-> SnapshotName(source_filename, now)]

\* add_prompt: the exception it raises ("" when none), the index and the files after it
add_prompt(prompts, source_filename, pv, files, leg, mtime, now) ==
    IF pv.extra = NoAttrs
    THEN [exc |-> "AttributeError", prompts |-> prompts, files |-> files, legacy |-> leg,
          mtime |-> mtime, name |-> SnapshotName(source_filename, now)]
    ELSE LET inserted == DictSet(prompts, AddKey(pv), pv)
             saved == _save_prompts(inserted, source_filename, files, leg, mtime, now)
         IN  [exc |-> saved.exc, prompts |-> inserted, files |-> saved.files,
              legacy |-> saved.legacy, mtime |-> saved.mtime, name |-> saved.name]

(***************************************************************************)
(* decorators/chorus.py: the wrapper of a tracked function.                *)
(***************************************************************************)
\* Lines 102-120: the version of the record to store
NewVersion(version, auto_version, current_version, formatted_prompt) ==
    IF version = Auto
    THEN IF current_version # NoneV
         THEN bump_version(current_version.version,
                           analyze_prompt_changes(current_version.prompt, formatted_prompt))
         ELSE V1_0_0
    ELSE IF current_version # NoneV /\ auto_version
    THEN IF current_version.prompt # formatted_prompt
         THEN bump_version(current_version.version,
                           analyze_prompt_changes(current_version.prompt, formatted_prompt))
         ELSE current_version.version
    ELSE version

Outcome(kind, exc, value, func_called, record, effect) ==
    [kind |-> kind, exc |-> exc, value |-> value, func_called |-> func_called,
     record |-> record, effect |-> effect]

\* A storage root the call leaves as it is
Untouched(source_filename, files, leg, mtime, now) ==
    [exc |-> "", prompts |-> <<>>, files |-> files, legacy |-> leg, mtime |-> mtime,
     name |-> SnapshotName(source_filename, now)]

\* wrapper, after storage.add_prompt(prompt_version): return result
wrapper_return(prompt_version, added) ==
    IF added.exc # "" THEN Outcome("raise", added.exc, NoneV, TRUE, prompt_version, added)
    ELSE Outcome("return", "", FuncValue, TRUE, prompt_version, added)

\* wrapper, after func returned or raised: the record and storage.add_prompt
wrapper_record(new_version, func, prompts, source_filename, files, leg, mtime, now) ==
    IF func.raises
    THEN Outcome("raise", FuncError, NoneV, TRUE, NoneV,
                 Untouched(source_filename, files, leg, mtime, now))
    ELSE wrapper_return(
             PromptVersionInit(func.prompt, new_version, func.name, NoneV, PyList(<<>>),
                               NoneV, PyDict(<<>>), FuncValue, PyFloat(0), NoneV, now),
             add_prompt(prompts, source_filename,
                        PromptVersionInit(func.prompt, new_version, func.name, NoneV,
                                          PyList(<<>>), NoneV, PyDict(<<>>), FuncValue,
                                          PyFloat(0), NoneV, now),
                        files, leg, mtime, now))

\* wrapper, after storage.get_latest_version(func.__name__): the version decision
wrapper_version(current_version, version, auto_version, func, prompts, source_filename, files, leg, mtime, now) ==
    IF current_version.kind = "raise"
    THEN Outcome("raise", current_version.exc, NoneV, FALSE, NoneV,
                 Untouched(source_filename, files, leg, mtime, now))
    ELSE wrapper_record(NewVersion(version, auto_version, current_version.rec, func.prompt),
                        func, prompts, source_filename, files, leg, mtime, now)

\* wrapper, after storage = PromptStorage(source_filename)
wrapper_storage(storage, version, auto_version, func, source_filename, files, leg, mtime, now) ==
    IF storage.exc # ""
    THEN Outcome("raise", storage.exc, NoneV, FALSE, NoneV,
                 Untouched(source_filename, files, leg, mtime, now))
    ELSE wrapper_version(get_latest_version(storage.prompts, func.name), version,
                         auto_version, func, storage.prompts, source_filename, files, leg,
                         mtime, now)

\* wrapper(*args, **kwargs): what the call returns or raises, whether func ran, the
\* record it built, and what add_prompt did to the storage root
wrapper(version, auto_version, func, source_filename, files, leg, mtime, now) ==
    IF func.prompt = ""
    THEN IF func.raises
         THEN Outcome("raise", FuncError, NoneV, TRUE, NoneV,
                      Untouched(source_filename, files, leg, mtime, now))
         ELSE Outcome("return", "", FuncValue, TRUE, NoneV,
                      Untouched(source_filename, files, leg, mtime, now))
    ELSE wrapper_storage(_load_prompts(files, leg), version, auto_version, func,
                         source_filename, files, leg, mtime, now)

(***************************************************************************)
(* The state machine.                                                      *)
(***************************************************************************)
NoStore == [phase |-> "absent", label |-> "run", prompts |-> <<>>]

NoCall == [t |-> "None"]

\* No _save_prompts in progress
Idle == [pc |-> "idle", data |-> <<>>, name |-> <<>>]

Called(op, s, arg, kind, exc, log, call) ==
    [op |-> op, s |-> s, arg |-> arg, kind |-> kind, exc |-> exc, log |-> log,
     call |-> call]

Init ==
    /\ clock = 1
    /\ mseq = 1
    /\ tsFiles \in {NoFiles} \cup
                   {WriteFile(NoFiles, SnapshotName("run", 0), 1, c) : c \in InitContents}
    /\ legacy \in {[exists |-> FALSE, content |-> Malformed]} \cup
                  {[exists |-> TRUE, content |-> c] : c \in InitLegacyContents}
    /\ stores = [s \in Stores |-> NoStore]
    /\ last = Called("start", 0, NoneV, "ok", "", <<>>, NoCall)
    /\ hist = [n0 |-> Cardinality(DOMAIN tsFiles), calls |-> 0, done |-> <<>>]
    /\ pend = [s \in Stores |-> Idle]

\* One second passes
Tick ==
    /\ clock < MaxClock
    /\ clock' = clock + 1
    /\ last' = Called("tick", 0, NoneV, "ok", "", <<>>, NoCall)
    /\ UNCHANGED <<tsFiles, legacy, mseq, stores, hist, pend>>

\* PromptStorage.__init__
Construct(s, source_filename) ==
    LET r == _load_prompts(tsFiles, legacy)
    IN  /\ stores' = [stores EXCEPT ![s] =
                         IF r.exc = ""
                         THEN [phase |-> "ready", label |-> source_filename,
                               prompts |-> r.prompts]
                         ELSE [phase |-> "failed", label |-> source_filename,
                               prompts |-> <<>>]]
        /\ last' = Called("__init__", s, NoneV, IF r.exc = "" THEN "ok" ELSE "raise",
                          r.exc, r.log, NoCall)
        /\ UNCHANGED <<clock, tsFiles, legacy, mseq, hist, pend>>

\* PromptStorage.add_prompt
Add(s, pv) ==
    /\ stores[s].phase = "ready"
    /\ hist.calls < MaxAdds
    /\ LET r == add_prompt(stores[s].prompts, stores[s].label, pv, tsFiles, legacy,
                           mseq, clock)
       IN  /\ stores' = [stores EXCEPT ![s].prompts = r.prompts]
           /\ tsFiles' = r.files
           /\ legacy' = r.legacy
           /\ mseq' = r.mtime
           /\ last' = Called("add_prompt", s, pv, IF r.exc = "" THEN "ok" ELSE "raise",
                             r.exc, <<>>, NoCall)
           /\ hist' = [hist EXCEPT
                         !.calls = IF r.mtime = mseq THEN @ ELSE @ + 1,
                         !.done = IF r.exc = ""
                                  THEN Append(@, [s |-> s, name |-> r.name,
                                                  content |-> r.files[r.name].content])
                                  ELSE @]
    /\ UNCHANGED <<clock, pend>>

\* The state after wrapper returned or raised r
Returned(func, r) ==
    /\ tsFiles' = r.effect.files
    /\ legacy' = r.effect.legacy
    /\ mseq' = r.effect.mtime
    /\ last' = Called("wrapper", 0, func, r.kind, r.exc, <<>>,
                      [func_called |-> r.func_called, value |-> r.value,
                       record |-> r.record,
                       stored |-> r.record # NoneV /\ r.effect.exc = ""])
    /\ hist' = [hist EXCEPT !.calls = IF r.effect.mtime = mseq THEN @ ELSE @ + 1]

\* A call of a function decorated with @chorus(version, auto_version=...)
TrackedCall(version, auto_version, func, source_filename) ==
    /\ hist.calls < MaxAdds
    /\ Returned(func, wrapper(version, auto_version, func, source_filename, tsFiles,
                              legacy, mseq, clock))
    /\ UNCHANGED <<clock, stores, pend>>

Next ==
    \/ Tick
    \/ Construct(1, "run")
    \/ \E pv \in InputRecords(clock) : Add(1, pv)
    \/ \E func \in Funcs : TrackedCall(func.version, TRUE, func, "run")

Spec == Init /\ [][Next]_vars

(***************************************************************************)
(* Two instances on one storage root, in two processes: the file           *)
(* operations of _save_prompts (lines 62-67) interleave.                   *)
(***************************************************************************)
InitConc ==
    /\ clock = 1
    /\ mseq = 1
    /\ tsFiles = NoFiles
    /\ legacy = [exists |-> FALSE, content |-> Malformed]
    /\ \E source_filename \in Labels :
           stores = [s \in Stores |->
                        [phase |-> "ready",
                         label |-> IF s = 1 THEN "run" ELSE source_filename,
                         prompts |-> <<>>]]
    /\ last = Called("start", 0, NoneV, "ok", "", <<>>, NoCall)
    /\ hist = [n0 |-> 0, calls |-> 0, done |-> <<>>]
    /\ pend = [s \in Stores |-> Idle]

\* What a json.dump leaves in a file opened with 'w': the document, or, when another
\* process wrote to the file since this one truncated it, possibly a mix of the two
Dumped(before, data) ==
    IF before = Malformed THEN {json_dump(data)} ELSE {json_dump(data), Malformed}

\* add_prompt up to the first open: lines 71-72 and 54-59
BeginAdd(s, pv) ==
    /\ stores[s].phase = "ready"
    /\ pend[s].pc = "idle"
    /\ hist.calls < MaxAdds
    /\ IF pv.extra = NoAttrs
       THEN /\ last' = Called("add_prompt", s, pv, "raise", "AttributeError", <<>>, NoCall)
            /\ UNCHANGED <<stores, pend, hist>>
       ELSE LET prompts == DictSet(stores[s].prompts, AddKey(pv), pv)
            IN  /\ stores' = [stores EXCEPT ![s].prompts = prompts]
                /\ pend' = [pend EXCEPT ![s] =
                               [pc |-> "open_ts", data |-> SaveData(prompts),
                                name |-> SnapshotName(stores[s].label, clock)]]
                /\ hist' = [hist EXCEPT !.calls = @ + 1]
                /\ last' = Called("add_prompt", s, pv, "running", "", <<>>, NoCall)
    /\ UNCHANGED <<clock, tsFiles, legacy, mseq>>

\* open(timestamped_file, 'w')
OpenTimestamped(s) ==
    /\ pend[s].pc = "open_ts"
    /\ tsFiles' = WriteFile(tsFiles, pend[s].name, mseq + 1, Malformed)
    /\ mseq' = mseq + 1
    /\ pend' = [pend EXCEPT ![s].pc = "dump_ts"]
    /\ UNCHANGED <<clock, legacy, stores, last, hist>>

\* json.dump(data, f, indent=2) into the timestamped file
DumpTimestamped(s) ==
    /\ pend[s].pc = "dump_ts"
    /\ \E content \in Dumped(tsFiles[pend[s].name].content, pend[s].data) :
           tsFiles' = WriteFile(tsFiles, pend[s].name, mseq + 1, content)
    /\ mseq' = mseq + 1
    /\ IF json_dump_raises(pend[s].data)
       THEN /\ pend' = [pend EXCEPT ![s] = Idle]
            /\ last' = Called("add_prompt", s, NoneV, "raise", "TypeError", <<>>, NoCall)
       ELSE /\ pend' = [pend EXCEPT ![s].pc = "open_legacy"]
            /\ UNCHANGED last
    /\ UNCHANGED <<clock, legacy, stores, hist>>

\* open(self.prompts_file, 'w')
OpenLegacy(s) ==
    /\ pend[s].pc = "open_legacy"
    /\ legacy' = [exists |-> TRUE, content |-> Malformed]
    /\ pend' = [pend EXCEPT ![s].pc = "dump_legacy"]
    /\ UNCHANGED <<clock, tsFiles, mseq, stores, last, hist>>

\* json.dump(data, f, indent=2) into prompts.json; add_prompt returns
DumpLegacy(s) ==
    /\ pend[s].pc = "dump_legacy"
    /\ \E content \in Dumped(legacy.content, pend[s].data) :
           legacy' = [exists |-> TRUE, content |-> content]
    /\ pend' = [pend EXCEPT ![s] = Idle]
    /\ hist' = [hist EXCEPT !.done = Append(@, [s |-> s, name |-> pend[s].name,
                                                content |-> json_dump(pend[s].data)])]
    /\ last' = Called("add_prompt", s, NoneV, "ok", "", <<>>, NoCall)
    /\ UNCHANGED <<clock, tsFiles, mseq, stores>>

NextConc ==
    \/ Tick
    \/ \E s \in Stores : \E pv \in InputRecords(clock) : BeginAdd(s, pv)
    \/ \E s \in Stores : OpenTimestamped(s)
    \/ \E s \in Stores : DumpTimestamped(s)
    \/ \E s \in Stores : OpenLegacy(s)
    \/ \E s \in Stores : DumpLegacy(s)

SpecConc == InitConc /\ [][NextConc]_vars

(***************************************************************************)
(* One instance whose process can end at any point of _save_prompts        *)
(* (lines 62-67) and start again on the same storage root.                 *)
(***************************************************************************)
InitCrash ==
    /\ clock = 1
    /\ mseq = 1
    /\ tsFiles = NoFiles
    /\ legacy = [exists |-> FALSE, content |-> Malformed]
    /\ stores = [s \in Stores |->
                    IF s = 1 THEN [phase |-> "ready", label |-> "run", prompts |-> <<>>]
                    ELSE NoStore]
    /\ last = Called("start", 0, NoneV, "ok", "", <<>>, NoCall)
    /\ hist = [n0 |-> 0, calls |-> 0, done |-> <<>>]
    /\ pend = [s \in Stores |-> Idle]

\* The process ends inside add_prompt: the instance is gone, the files stay as they are
Crash(s) ==
    /\ pend[s].pc # "idle"
    /\ pend' = [pend EXCEPT ![s] = Idle]
    /\ stores' = [stores EXCEPT ![s] = NoStore]
    /\ last' = Called("crash", s, [pc |-> pend[s].pc, name |-> pend[s].name,
                                   data |-> pend[s].data], "raise", "", <<>>, NoCall)
    /\ UNCHANGED <<clock, tsFiles, legacy, mseq, hist>>

\* The next process constructs its PromptStorage
Restart(s) ==
    /\ stores[s].phase = "absent"
    /\ Construct(s, "run")

NextCrash ==
    \/ Tick
    \/ \E pv \in InputRecords(clock) : BeginAdd(1, pv)
    \/ OpenTimestamped(1)
    \/ DumpTimestamped(1)
    \/ OpenLegacy(1)
    \/ DumpLegacy(1)
    \/ Crash(1)
    \/ Restart(1)

SpecCrash == InitCrash /\ [][NextCrash]_vars

(***************************************************************************)
(* Two instances on one storage root, their adds one after the other      *)
(* within one second, and the queries of core/storage.py (lines 75-118)    *)
(* on either of them.                                                      *)
(***************************************************************************)
\* list_prompts(function_name): a falsy name lists every record
list_prompts(prompts, function_name) ==
    IF function_name # <<>> THEN VersionsOf(prompts, function_name) ELSE Values(prompts)

\* The arguments of get_prompt: one that an added record has, one that none has
GetArgs ==
    { [function_name |-> F, project_version |-> V1_10_0, agent_version |-> 1],
      [function_name |-> G, project_version |-> V1_10_0, agent_version |-> 2] }

\* The arguments of get_prompt_by_combined_version
CombinedArgs ==
    { [function_name |-> F, version |-> V1_0_0],
      [function_name |-> F, version |-> V1_10_0 \o <<"_", "1">>] }

\* What get_latest_version or get_latest_project_version returned or raised
Latest(op, s, function_name, r) ==
    Called(op, s, [function_name |-> function_name],
           IF r.kind = "raise" THEN "raise" ELSE "ok", r.exc, <<>>, [value |-> r.rec])

GetPrompt(s, arg) ==
    /\ stores[s].phase = "ready"
    /\ last' = Called("get_prompt", s, arg, "ok", "", <<>>,
                      [value |-> Lookup(stores[s].prompts,
                                        GetKey(arg.function_name, arg.project_version,
                                               arg.agent_version))])
    /\ UNCHANGED <<clock, tsFiles, legacy, mseq, stores, hist, pend>>

GetPromptByCombinedVersion(s, arg) ==
    /\ stores[s].phase = "ready"
    /\ last' = Called("get_prompt_by_combined_version", s, arg, "ok", "", <<>>,
                      [value |-> Lookup(stores[s].prompts,
                                        CombinedKey(arg.function_name, arg.version))])
    /\ UNCHANGED <<clock, tsFiles, legacy, mseq, stores, hist, pend>>

GetLatestVersion(s, function_name) ==
    /\ stores[s].phase = "ready"
    /\ last' = Latest("get_latest_version", s, function_name,
                      get_latest_version(stores[s].prompts, function_name))
    /\ UNCHANGED <<clock, tsFiles, legacy, mseq, stores, hist, pend>>

GetLatestProjectVersion(s, function_name) ==
    /\ stores[s].phase = "ready"
    /\ last' = Latest("get_latest_project_version", s, function_name,
                      get_latest_project_version(stores[s].prompts, function_name))
    /\ UNCHANGED <<clock, tsFiles, legacy, mseq, stores, hist, pend>>

ListPrompts(s, function_name) ==
    /\ stores[s].phase = "ready"
    /\ last' = Called("list_prompts", s, [function_name |-> function_name], "ok", "", <<>>,
                      [value |-> list_prompts(stores[s].prompts, function_name)])
    /\ UNCHANGED <<clock, tsFiles, legacy, mseq, stores, hist, pend>>

ListTimestampedFiles(s) ==
    /\ stores[s].phase = "ready"
    /\ last' = Called("list_timestamped_files", s, NoneV, "ok", "", <<>>,
                      [value |-> list_timestamped_files(tsFiles)])
    /\ UNCHANGED <<clock, tsFiles, legacy, mseq, stores, hist, pend>>

NextQuery ==
    \/ \E s \in Stores : \E pv \in InputRecords(clock) : Add(s, pv)
    \/ \E s \in Stores : \E arg \in GetArgs : GetPrompt(s, arg)
    \/ \E s \in Stores : \E arg \in CombinedArgs : GetPromptByCombinedVersion(s, arg)
    \/ \E s \in Stores : \E function_name \in FunctionNames :
           GetLatestVersion(s, function_name)
    \/ \E s \in Stores : \E function_name \in FunctionNames :
           GetLatestProjectVersion(s, function_name)
    \/ \E s \in Stores : \E function_name \in FunctionNames \cup {<<>>} :
           ListPrompts(s, function_name)
    \/ \E s \in Stores : ListTimestampedFiles(s)

SpecQuery == InitConc /\ [][NextQuery]_vars

(***************************************************************************)
(* Two scope labels on one storage root: an instance adds, then a second   *)
(* instance is constructed, under the same label or another, and adds.     *)
(***************************************************************************)
InitScope ==
    /\ clock = 1
    /\ mseq = 1
    /\ tsFiles = NoFiles
    /\ legacy = [exists |-> FALSE, content |-> Malformed]
    /\ \E source_filename \in Labels :
           stores = [s \in Stores |->
                        IF s = 1 THEN [phase |-> "ready", label |-> source_filename,
                                       prompts |-> <<>>]
                        ELSE NoStore]
    /\ last = Called("start", 0, NoneV, "ok", "", <<>>, NoCall)
    /\ hist = [n0 |-> 0, calls |-> 0, done |-> <<>>]
    /\ pend = [s \in Stores |-> Idle]

\* add_prompt on the first instance, before the second one exists
AddBefore(pv) ==
    /\ stores[2].phase = "absent"
    /\ Add(1, pv)

\* PromptStorage(source_filename=...) after the first instance completed an add
ConstructAfter(source_filename) ==
    /\ hist.done # <<>>
    /\ Construct(2, source_filename)

NextScope ==
    \/ Tick
    \/ \E pv \in InputRecords(clock) : AddBefore(pv)
    \/ \E source_filename \in Labels : ConstructAfter(source_filename)
    \/ \E pv \in InputRecords(clock) : Add(2, pv)

SpecScope == InitScope /\ [][NextScope]_vars

(***************************************************************************)
(* The pure functions (versioning.py, models.py): the initial state draws  *)
(* the arguments, one action per function applies it.                      *)
(***************************************************************************)
\* The dot-separated parts of the version strings drawn
Parts == {<<>>, <<"0">>, <<"1">>, <<"1", "0">>, <<"0", "1">>, <<"x">>, <<SuperscriptTwo>>}

\* The parts of the version strings drawn with something before or after them
NumberParts == {<<"1">>, <<"1", "0">>, <<"0", "1">>}

\* n of the parts joined by "."
RECURSIVE Dotted(_, _)
Dotted(n, parts) ==
    IF n = 1 THEN parts ELSE {a \o <<".">> \o b : a \in Dotted(n - 1, parts), b \in parts}

\* What follows the parts: nothing, a pre-release, build metadata, both
Suffixes ==
    {<<>>, <<"-", "a">>, <<"+", "a">>, <<"-", "a", "+", "a">>, <<"-", "0", "1">>, <<"+">>}

\* What surrounds the version: nothing, white space, a letter
Pads == {<<<<>>, <<>>>>, <<<<" ">>, <<>>>>, <<<<>>, <<" ">>>>, <<<<"v">>, <<>>>>}

VersionStrings ==
    UNION {Dotted(n, Parts) : n \in 1..MaxParts} \cup
    {pad[1] \o core \o suffix \o pad[2] :
        pad \in Pads, core \in UNION {Dotted(n, NumberParts) : n \in 1..MaxParts},
        suffix \in Suffixes}

\* The prompts drawn: empty, short, without a period, with a breaking phrase, long,
\* with other case and white space, of 44 and 45 characters, of 119 and 120
\* characters with feature keywords, with empty sentences
Prompts ==
    {"",
     "Summarize the text.",
     "Summarize the text",
     "Translate the text into French instead of summarizing.",
     "You are a helpful assistant. Answer the question in one short paragraph.",
     "  SUMMARIZE   the\ttext. ",
     "hello",
     "Answer the question in one short paragraph..",
     "Answer the question in one short paragraph...",
     "You are also a new assistant. Pick one option. Answer the question in one short paragraph, then stop and wait for me...",
     "You are also a new assistant. Pick one option. Answer the question in one short paragraph, then stop and wait for me....",
     "aaa bbb ccc ddd. eee fff ggg hhh. iii jjj kkk lll. mmm nnn",
     "aaa bbb ccc ddd. eee fff ggg hhh. iii jjj kkk lll. mmm nnn..",
     "You are a helpful assistant. Pick one answer. Answer the question in one short paragraph, then stop and wait for me today..."}

\* A sentence with feature keywords only
FeatureSentence == " Also supports new optional retries."

\* The (old, new) pairs drawn
PromptPairs ==
    {[t |-> "prompts", old |-> old, new |-> new] : old \in Prompts, new \in Prompts} \cup
    {[t |-> "prompts", old |-> old, new |-> old \o FeatureSentence] : old \in Prompts}

\* The values passed as a version: strings, None, an integer
VersionValues == {PyStr(v) : v \in VersionStrings} \cup {NoneV, PyInt(100)}

\* bump_type arguments
BumpTypes == {"major", "minor", "patch", "junk"}

\* The records drawn: PromptVersion(...) with each optional argument absent, empty
\* and given
Records ==
    { PromptVersionInit(prompt, V1_0_0, F, description, tags, created_at, inputs, output,
                        execution_time, execution_id, 1) :
        prompt \in {"p1", "p2"},
        description \in {NoneV, PyStr("d")},
        tags \in {NoneV, PyList(<<>>), PyList(<<"t", "u">>), PyTuple(<<"t">>)},
        created_at \in {NoneV, PyTime(0)},
        inputs \in {NoneV, PyDict(<< <<"q", PyTuple(<<1, 2>>)>> >>)},
        output \in {NoneV, PyStr(""), PyTuple(<<1, 2>>), PyObject},
        execution_time \in {NoneV, PyFloat(0), PyFloat(1)},
        execution_id \in {NoneV, ExecutionId("x1")} }

Input(f, arg) == Called("input", 0, [f |-> f, arg |-> arg], "ok", "", <<>>, NoCall)

Result(op, kind, exc, value) ==
    Called(op, 0, last.arg, kind, exc, <<>>, [value |-> value])

InitPure ==
    /\ clock = 1
    /\ mseq = 1
    /\ tsFiles = NoFiles
    /\ legacy = [exists |-> FALSE, content |-> Malformed]
    /\ stores = [s \in Stores |-> NoStore]
    /\ hist = [n0 |-> 0, calls |-> 0, done |-> <<>>]
    /\ pend = [s \in Stores |-> Idle]
    /\ last \in {Input("version", v) : v \in VersionValues} \cup
                {Input("prompts", pair) : pair \in PromptPairs} \cup
                {Input("record", r) : r \in Records}

\* parse_version_parts(version), version a string
ParseVersion ==
    /\ last.op = "input" /\ last.arg.f = "version" /\ last.arg.arg.t = "str"
    /\ last' = IF parse_version_parts_raises(last.arg.arg.s)
               THEN Result("parse_version_parts", "raise", "ValueError", <<>>)
               ELSE Result("parse_version_parts", "ok", "",
                           parse_version_parts(last.arg.arg.s))
    /\ UNCHANGED <<clock, tsFiles, legacy, mseq, stores, hist, pend>>

\* bump_version(current_version, bump_type), current_version a string
BumpVersion(bump_type) ==
    /\ last.op = "input" /\ last.arg.f = "version" /\ last.arg.arg.t = "str"
    /\ last' = IF parse_version_parts_raises(last.arg.arg.s)
               THEN Result("bump_version", "raise", "ValueError", bump_type)
               ELSE Result("bump_version", "ok", "",
                           <<bump_type, bump_version(last.arg.arg.s, bump_type)>>)
    /\ UNCHANGED <<clock, tsFiles, legacy, mseq, stores, hist, pend>>

\* is_valid_version(version)
IsValidVersion ==
    /\ last.op = "input" /\ last.arg.f = "version"
    /\ last' = Result("is_valid_version", "ok", "", is_valid_version(last.arg.arg))
    /\ UNCHANGED <<clock, tsFiles, legacy, mseq, stores, hist, pend>>

\* analyze_prompt_changes(old_prompt, new_prompt)
AnalyzePromptChanges ==
    /\ last.op = "input" /\ last.arg.f = "prompts"
    /\ last' = Result("analyze_prompt_changes", "ok", "",
                      analyze_prompt_changes(last.arg.arg.old, last.arg.arg.new))
    /\ UNCHANGED <<clock, tsFiles, legacy, mseq, stores, hist, pend>>

\* PromptVersion.from_dict(r.to_dict())
RoundTrip ==
    /\ last.op = "input" /\ last.arg.f = "record"
    /\ last' = IF from_dict_error(to_dict(last.arg.arg)) # ""
               THEN Result("from_dict", "raise", from_dict_error(to_dict(last.arg.arg)),
                           <<>>)
               ELSE Result("from_dict", "ok", "", from_dict(to_dict(last.arg.arg)))
    /\ UNCHANGED <<clock, tsFiles, legacy, mseq, stores, hist, pend>>

NextPure ==
    \/ ParseVersion
    \/ \E bump_type \in BumpTypes : BumpVersion(bump_type)
    \/ IsValidVersion
    \/ AnalyzePromptChanges
    \/ RoundTrip

SpecPure == InitPure /\ [][NextPure]_vars

(***************************************************************************)
(* Properties.                                                             *)
(***************************************************************************)
\* The fields of a VersionRecord (the attributes PromptVersion.__init__ sets)
Fields(pv) == [pv EXCEPT !.extra = NoAttrs]

SameFields(a, b) == a # NoneV /\ b # NoneV /\ Fields(a) = Fields(b)

Ready(s) == stores[s].phase = "ready"

\* C1: once add(r) has been called on a store, get(r.ownerName, r.version) on that
\* store returns a record with the field values of r, indexed under
\* "{ownerName}_{version}".
C1_AddThenGet ==
    last.op = "add_prompt" =>
        LET r == last.arg
            key == CombinedKey(r.function_name, r.version)
        IN  /\ key \in Keys(stores[last.s].prompts)
            /\ SameFields(Lookup(stores[last.s].prompts, key), r)

\* C2: when the wrapped function raises during a tracked call, a record whose output
\* is the stringified error is added to the store and persisted, and the caller gets
\* the original exception.
C2_FailureRecorded ==
    (last.op = "wrapper" /\ last.arg.prompt # "" /\ last.call.func_called
        /\ last.arg.raises) =>
        /\ last.kind = "raise" /\ last.exc = FuncError
        /\ last.call.stored
        /\ last.call.record # NoneV
        /\ last.call.record.output.t = "str"

\* A file loads: it parses and from_dict accepts every entry
Loads(content) ==
    content.ok /\ \A i \in 1..Len(content.items) : from_dict_error(content.items[i][2]) = ""

\* The records of a file that loads
RecordsOf(content) == LoadItems(content.items, Len(content.items), <<>>)

NewestSnapshot == tsFiles[list_timestamped_files(tsFiles)[1]].content

\* C3: after construction the index is exactly the records of one file: the newest
\* timestamped snapshot if it loads, otherwise the legacy snapshot if it exists and
\* loads, otherwise the index is empty.
C3_IndexIsOneFile ==
    (last.op = "__init__" /\ last.kind = "ok") =>
        stores[last.s].prompts =
            IF DOMAIN tsFiles # {} /\ Loads(NewestSnapshot) THEN RecordsOf(NewestSnapshot)
            ELSE IF legacy.exists /\ Loads(legacy.content) THEN RecordsOf(legacy.content)
            ELSE <<>>

\* The only faults of a file are malformed JSON and entries missing a required field
OnlyContentFaults(content) ==
    \A i \in 1..Len(content.items) :
        from_dict_error(content.items[i][2]) \in {"", "KeyError"}

\* The keys of the entries of a file before its first fault
KeysBeforeFault(content) ==
    {content.items[i][1] : i \in {j \in 1..Len(content.items) :
        \A k \in 1..j : from_dict_error(content.items[k][2]) = ""}}

C5_OneNewSnapshotPerAdd ==
    hist.calls = Len(hist.done) =>
        /\ Cardinality(DOMAIN tsFiles) = hist.n0 + Len(hist.done)
        /\ \A i \in 1..Len(hist.done) :
               /\ hist.done[i].name \in DOMAIN tsFiles
               /\ tsFiles[hist.done[i].name].content = hist.done[i].content

\* C6: after every completed add, the legacy snapshot holds the full in-memory index
\* of the store that performed the add, and its content is identical to that of the
\* timestamped snapshot the add wrote.
C6_LegacyMirrorsIndex ==
    (last.op = "add_prompt" /\ last.kind = "ok") =>
        LET prompts == stores[last.s].prompts
            name == SnapshotName(stores[last.s].label, clock)
        IN  /\ legacy.exists /\ legacy.content.ok
            /\ Len(legacy.content.items) = Len(prompts)
            /\ \A i \in 1..Len(prompts) :
                   /\ legacy.content.items[i][1] = prompts[i][1]
                   /\ legacy.content.items[i][2] = JsonEntry(to_dict(prompts[i][2]))
            /\ name \in DOMAIN tsFiles
            /\ tsFiles[name].content = legacy.content

C6_Witness ==
    /\ last.op = "add_prompt" /\ last.kind = "ok"
    /\ Len(stores[last.s].prompts) >= 2
    /\ Len(hist.done) >= 2

\* Two indexes hold the same keys and, under each key, the same field values
SameIndex(a, b) ==
    /\ Keys(a) = Keys(b)
    /\ \A k \in Keys(a) : SameFields(Get(a, k), Get(b, k))

\* C7: with one store the only writer, after any sequence of completed adds a new
\* store constructed on the same storage root has the keys and the field values of
\* the writer's in-memory index.
C7_ReloadEqualsWriter ==
    (last.op = "add_prompt" /\ hist.calls = Len(hist.done)) =>
        LET loaded == _load_prompts(tsFiles, legacy)
        IN  /\ loaded.exc = ""
            /\ SameIndex(loaded.prompts, stores[last.s].prompts)

\* The records of a function, in a store's index
Matching(s, function_name) ==
    {pv \in Range(Values(stores[s].prompts)) : pv.function_name = function_name}

\* C9: getLatestBySemver(ownerName) returns nothing when no record matches, and
\* otherwise a record of that owner whose parsed (major, minor, patch) is greatest
\* among that owner's records.
C9_LatestBySemver ==
    \A s \in Stores, fn \in FunctionNames :
        Ready(s) =>
            LET r == get_latest_project_version(stores[s].prompts, fn)
            IN  IF Matching(s, fn) = {} THEN r.kind = "None"
                ELSE /\ r.kind = "record"
                     /\ r.rec \in Matching(s, fn)
                     /\ \A pv \in Matching(s, fn) :
                            ~TupleLess(parse_version_parts(r.rec.version),
                                       parse_version_parts(pv.version))

\* C10: getLatestByRecency(ownerName) returns nothing when no record matches, and
\* otherwise a record of that owner whose trailing version-component tag is
\* numerically greatest among that owner's records; the tracking wrapper gets its
\* current version from it on every tracked call.
C10_LatestByRecency ==
    \A s \in Stores, fn \in FunctionNames :
        Ready(s) =>
            LET r == get_latest_version(stores[s].prompts, fn)
            IN  IF Matching(s, fn) = {} THEN r.kind = "None"
                ELSE /\ r.kind = "record"
                     /\ r.rec \in Matching(s, fn)
                     /\ \A pv \in Matching(s, fn) :
                            ~IntLess(agent_version(r.rec), agent_version(pv))

\* C8: when two instances on one storage root add concurrently, the timestamped
\* snapshot of every completed add holds exactly the full index of the instance that
\* wrote it, under every interleaving of the writes.
C8_SnapshotsNotCorrupted ==
    (\A i, j \in 1..Len(hist.done) : i # j => hist.done[i].s # hist.done[j].s) =>
        \A i \in 1..Len(hist.done) :
            /\ hist.done[i].name \in DOMAIN tsFiles
            /\ tsFiles[hist.done[i].name].content = hist.done[i].content

\* A component of a version string that is a decimal number
Numeric(part) == Len(part) > 0 /\ \A i \in 1..Len(part) : part[i] \in Range(Digits)

\* The dot-separated components of a version string without its suffix
Components(v) == split(SplitHead(SplitHead(v, "-"), "+"), ".")

\* C11: VersionCodec.parse is total: for every string it returns three non-negative
\* integers and never fails, and each of the first three components that is absent
\* or not numeric is read as 0.
C11_ParseTotal ==
    last.op = "parse_version_parts" =>
        /\ last.kind = "ok"
        /\ Len(last.call.value) = 3
        /\ \A i \in 1..3 :
               /\ last.call.value[i] \in Nat
               /\ (i > Len(Components(last.arg.arg.s))
                      \/ ~Numeric(Components(last.arg.arg.s)[i])) =>
                      last.call.value[i] = 0

\* The triple bump makes of (M, m, p) for a kind
Bumped(t, kind) ==
    IF kind = "major" THEN <<t[1] + 1, 0, 0>>
    ELSE IF kind = "minor" THEN <<t[1], t[2] + 1, 0>>
    ELSE <<t[1], t[2], t[3] + 1>>

\* C12: for every version string v with parse(v) = (M, m, p), bump(v, kind) is
\* "{M+1}.0.0" for major, "{M}.{m+1}.0" for minor and "{M}.{m}.{p+1}" for patch and
\* every other kind, without the pre-release or build metadata of v.
C12_BumpArithmetic ==
    (last.op = "bump_version" /\ ~parse_version_parts_raises(last.arg.arg.s)) =>
        /\ last.kind = "ok"
        /\ LET kind == last.call.value[1]
               out == last.call.value[2]
           IN  /\ Len(split(out, ".")) = 3
               /\ \A i \in 1..3 :
                      /\ Numeric(split(out, ".")[i])
                      /\ Len(split(out, ".")[i]) > 1 => split(out, ".")[i][1] # "0"
                      /\ int(split(out, ".")[i]) =
                             Bumped(parse_version_parts(last.arg.arg.s), kind)[i]

C12_Witness ==
    /\ last.op = "bump_version" /\ last.kind = "ok"
    /\ last.call.value[1] = "junk"
    /\ "-" \in Range(last.arg.arg.s) /\ "+" \in Range(last.arg.arg.s)
    /\ parse_version_parts(last.arg.arg.s) = <<10, 1, 1>>

\* The text after the first ch of s
After(s, ch) == SubSeq(s, Len(SplitHead(s, ch)) + 2, Len(s))

\* MAJOR, MINOR, PATCH: a decimal number without leading zero
NumericId(x) == Numeric(x) /\ (Len(x) > 1 => x[1] # "0")

\* A pre-release identifier: alphanumerics and hyphens, a number has no leading zero
PrereleaseId(x) ==
    Len(x) > 0 /\ (\A i \in 1..Len(x) : x[i] \in IdChars) /\ (Numeric(x) => NumericId(x))

\* A build identifier: alphanumerics and hyphens
BuildId(x) == Len(x) > 0 /\ \A i \in 1..Len(x) : x[i] \in IdChars

\* MAJOR.MINOR.PATCH[-PRERELEASE][+BUILD]
SemverGrammar(s) ==
    LET body == SplitHead(s, "+")
        core == split(SplitHead(body, "-"), ".")
    IN  /\ Len(core) = 3 /\ \A i \in 1..3 : NumericId(core[i])
        /\ "-" \in Range(body) =>
               \A i \in 1..Len(split(After(body, "-"), ".")) :
                   PrereleaseId(split(After(body, "-"), ".")[i])
        /\ "+" \in Range(s) =>
               \A i \in 1..Len(split(After(s, "+"), ".")) :
                   BuildId(split(After(s, "+"), ".")[i])

\* C13: isValid(v) is true exactly for the strings of the semantic-version grammar
\* and false for every other input: the empty string, a non-string, a string missing
\* a numeric component, a string with any character before or after the version.
C13_ValidIffGrammar ==
    last.op = "is_valid_version" =>
        (last.call.value <=> (last.arg.arg.t = "str" /\ SemverGrammar(last.arg.arg.s)))

\* The normalized prompts of the last classification
OldNormalized == _normalize_prompt(last.arg.arg.old)

NewNormalized == _normalize_prompt(last.arg.arg.new)

\* The number of segments between the periods of a text
Segments(s) == Cardinality({i \in 1..Len(s) : s[i] = "."}) + 1

\* C14: for every old prompt, classify(old, old + ' Also supports new optional
\* retries.') is 'minor'.
C14_FeatureSentenceMinor ==
    (last.op = "analyze_prompt_changes"
        /\ last.arg.arg.new = last.arg.arg.old \o FeatureSentence)
    => last.call.value = "minor"

\* The old prompts for which the appended feature sentence is classified 'minor':
\* normalized, at least 45 characters with a period and two distinct words, and
\* shorter than 120 characters or without one of 'also', 'new', 'option'
C14_Moderate(old) ==
    /\ Len(old) >= 45
    /\ "." \in Range(old)
    /\ Cardinality(words(old)) >= 2
    /\ \/ Len(old) < 120
       \/ \E keyword \in {"also", "new", "option"} : ~Contains(old, keyword)

\* C14 (amended): classify(old, old + ' Also supports new optional retries.') is
\* 'minor' for every old prompt that has, once normalized, at least 45 characters,
\* a period and two distinct words, and fewer than 120 characters or not all of
\* 'also', 'new', 'option'.
C14_FeatureSentenceMinorModerate ==
    (last.op = "analyze_prompt_changes"
        /\ last.arg.arg.new = last.arg.arg.old \o FeatureSentence
        /\ C14_Moderate(OldNormalized))
    => last.call.value = "minor"

\* A prompt of 124 characters without a feature keyword got the sentence: 'minor'
C14_Witness ==
    /\ last.op = "analyze_prompt_changes"
    /\ last.arg.arg.new = last.arg.arg.old \o FeatureSentence
    /\ C14_Moderate(OldNormalized)
    /\ Len(OldNormalized) >= 120
    /\ last.call.value = "minor"

\* The major conditions as stated: a new-only breaking phrase, a sentence-count
\* delta ratio above 0.6, a Jaccard word similarity below 0.25, a length change
\* ratio above 0.8
StatedMajor(old, new) ==
    \/ NewOnly(breaking_keywords, old, new)
    \/ 10 * abs(Segments(new) - Segments(old)) > 6 * max(Segments(old), 1)
    \/ /\ words(old) \cup words(new) # {}
       /\ 4 * Cardinality(words(old) \cap words(new))
              < Cardinality(words(old) \cup words(new))
    \/ IF Len(old) = 0 THEN Len(new) > 0
       ELSE 10 * abs(Len(new) - Len(old)) > 8 * Len(old)

\* The minor conditions as stated: a new-only feature phrase, more than 8 new
\* words, a new prompt over 1.3 times the old, over one more sentence, a new-only
\* functionality phrase
StatedMinor(old, new) ==
    \/ NewOnly(feature_keywords, old, new)
    \/ Cardinality(words(new) \ words(old)) > 8
    \/ 10 * Len(new) > 13 * Len(old)
    \/ Segments(new) > Segments(old) + 1
    \/ NewOnly(functionality_indicators, old, new)

\* The priority of the three kinds
Priority(major, minor) == IF major THEN "major" ELSE IF minor THEN "minor" ELSE "patch"

\* C15: classify is deterministic and total with a fixed priority: 'major' whenever
\* a major condition holds (new-only breaking phrase, sentence-count delta ratio
\* above 0.6, Jaccard word similarity below 0.25, length change ratio above 0.8),
\* 'minor' exactly when none holds and a minor condition holds, 'patch' otherwise;
\* it never fails, also for an empty old or new prompt.
C15_FixedPriority ==
    last.op = "analyze_prompt_changes" =>
        /\ last.kind = "ok"
        /\ last.arg.arg.old # last.arg.arg.new =>
               last.call.value
                   = Priority(StatedMajor(OldNormalized, NewNormalized),
                              StatedMinor(OldNormalized, NewNormalized))

\* The major conditions with the word similarity taken of two non-empty prompts
\* only and the length change ratio of a non-empty old prompt only
GuardedMajor(old, new) ==
    \/ NewOnly(breaking_keywords, old, new)
    \/ 10 * abs(Segments(new) - Segments(old)) > 6 * Segments(old)
    \/ /\ Len(old) > 0 /\ Len(new) > 0
       /\ 4 * Cardinality(words(old) \cap words(new))
              < Cardinality(words(old) \cup words(new))
    \/ Len(old) > 0 /\ 10 * abs(Len(new) - Len(old)) > 8 * Len(old)

\* The minor conditions with the length ratio of a non-empty old prompt only and
\* the sentences counted without the blank ones
GuardedMinor(old, new) ==
    \/ NewOnly(feature_keywords, old, new)
    \/ Cardinality(words(new) \ words(old)) > 8
    \/ Len(old) > 0 /\ 10 * Len(new) > 13 * Len(old)
    \/ Len(sentences(new)) > Len(sentences(old)) + 1
    \/ NewOnly(functionality_indicators, old, new)

\* C15 (amended): classify never fails and has the fixed priority major, minor,
\* patch over the conditions, where the word similarity counts only between two
\* non-empty normalized prompts, the length ratios only for a non-empty old prompt,
\* and the added sentences are the non-blank ones; equal prompts are 'patch'.
C15_FixedPriorityGuarded ==
    last.op = "analyze_prompt_changes" =>
        /\ last.kind = "ok"
        /\ last.call.value
               = IF last.arg.arg.old = last.arg.arg.new THEN "patch"
                 ELSE Priority(GuardedMajor(OldNormalized, NewNormalized),
                               GuardedMinor(OldNormalized, NewNormalized))

\* An empty old prompt and a new one that share no word: 'patch'
C15_Witness ==
    /\ last.op = "analyze_prompt_changes"
    /\ last.arg.arg.old = "" /\ last.arg.arg.new = "hello"
    /\ last.call.value = "patch"

\* C16: classify(p, p) is 'patch' for every string p.
C16_SamePromptPatch ==
    (last.op = "analyze_prompt_changes" /\ last.arg.arg.old = last.arg.arg.new)
    => last.call.value = "patch"

\* A prompt with a breaking phrase classified against itself
C16_Witness ==
    /\ last.op = "analyze_prompt_changes"
    /\ last.arg.arg.old = last.arg.arg.new
    /\ Contains(OldNormalized, "instead of")
    /\ last.call.value = "patch"

\* C17: for every record r, PromptVersion.from_dict(r.to_dict()) has the same
\* prompt, version, function_name, tags, inputs, output and execution_time as r,
\* and the same prompt_hash, which is the hash of its prompt.
C17_RecordRoundTrip ==
    last.op = "from_dict" =>
        /\ last.kind = "ok"
        /\ \A field \in {"prompt", "version", "function_name", "tags", "inputs", "output",
                         "execution_time", "prompt_hash"} :
               last.call.value[field] = last.arg.arg[field]
        /\ last.call.value.prompt_hash = md5_8(last.call.value.prompt)

\* A record with tags, inputs, a tuple as output and an execution time went round
C17_Witness ==
    /\ last.op = "from_dict" /\ last.kind = "ok"
    /\ last.arg.arg.tags = <<"t", "u">>
    /\ last.arg.arg.inputs # <<>>
    /\ last.arg.arg.output = PyTuple(<<1, 2>>)
    /\ last.arg.arg.execution_time = PyFloat(0)

\* The index that after holds every record of the index before, under its key and
\* with its field values, and at least one more key
Superseded(before, after) ==
    /\ Keys(before) \subseteq Keys(after)
    /\ Keys(after) # Keys(before)
    /\ \A k \in Keys(before) : SameFields(Get(after, k), Get(before, k))

\* A tracked call of func that returns finds records of func's name in the index, all
\* of them with another prompt than func's
PromptChanged(func, index) ==
    /\ func.prompt # "" /\ ~func.raises
    /\ index.exc = ""
    /\ VersionsOf(index.prompts, func.name) # <<>>
    /\ \A pv \in Range(VersionsOf(index.prompts, func.name)) : pv.prompt # func.prompt

\* C18: a stored record is never mutated or removed: when the formatted prompt of a
\* tracked call differs from the prompt of the latest stored record of that function
\* (auto_version on), the new record is stored under a key that was not in the index,
\* and every record of the index keeps its key and its field values.
C18_SupersededNotMutated ==
    [][(last'.op = "wrapper" /\ PromptChanged(last'.arg, _load_prompts(tsFiles, legacy)))
        => /\ last'.call.stored
           /\ _load_prompts(tsFiles', legacy').exc = ""
           /\ Superseded(_load_prompts(tsFiles, legacy).prompts,
                         _load_prompts(tsFiles', legacy').prompts)]_vars

\* The document json.dump writes for an index
Document(prompts) == json_dump(SaveData(prompts))

\* The legacy file holds the index as of the last completed add
LegacyAtPreviousAdd == legacy.exists /\ legacy.content = hist.done[Len(hist.done)].content

\* C19: add persists in a fixed order (index insert, timestamped snapshot, legacy
\* file), so when add can crash at any step, in every state the legacy file holds the
\* store's current full index or the full index as of the previous completed add, and
\* a crash between the two writes leaves it exactly one add behind the newest
\* timestamped snapshot.
C19_LegacyCurrentOrPrevious ==
    (hist.done # <<>> /\ pend[1].pc = "idle") =>
        /\ \/ LegacyAtPreviousAdd
           \/ /\ Ready(1) /\ ~json_dump_raises(SaveData(stores[1].prompts))
              /\ legacy.exists /\ legacy.content = Document(stores[1].prompts)
        /\ (last.op = "crash" /\ last.arg.pc = "open_legacy") =>
               /\ LegacyAtPreviousAdd
               /\ NewestSnapshot = json_dump(last.arg.data)

\* The queries of a store
Queries ==
    {"get_prompt", "get_prompt_by_combined_version", "get_latest_version",
     "get_latest_project_version", "list_prompts", "list_timestamped_files"}

\* C20: after construction the index of a store changes only through add on that
\* same instance: the queries leave the index and every file unchanged, what other
\* instances write to the files is never reflected in the index, and no operation
\* deletes a file.
C20_IndexChangesOnlyByOwnAdd ==
    [][/\ \A s \in Stores :
              stores'[s] # stores[s] =>
                  /\ last'.op = "add_prompt" /\ last'.s = s
                  /\ stores'[s] = [stores[s] EXCEPT !.prompts =
                                      DictSet(@, AddKey(last'.arg), last'.arg)]
       /\ last'.op \in Queries =>
              /\ stores' = stores
              /\ tsFiles' = tsFiles /\ legacy' = legacy /\ mseq' = mseq
       /\ DOMAIN tsFiles \subseteq DOMAIN tsFiles'
       /\ legacy.exists => legacy'.exists]_vars

\* A store lists its records, none, after the other instance added one and wrote it
\* to the storage root
C20_Witness ==
    /\ last.op = "list_prompts" /\ last.call.value = <<>>
    /\ \E s \in Stores : s # last.s /\ stores[s].prompts # <<>>
    /\ DOMAIN tsFiles # {} /\ legacy.exists /\ legacy.content.ok

\* C21: tracking is transparent on success: whenever the wrapped function has a prompt
\* and returns a value without raising, the tracked call returns exactly that value
\* and raises nothing, after storing exactly one record for that call, on an empty
\* store as well as when records of that function exist.
C21_TransparentOnSuccess ==
    (last.op = "wrapper" /\ last.arg.prompt # "" /\ ~last.arg.raises) =>
        /\ last.kind = "return" /\ last.exc = ""
        /\ last.call.value = FuncValue
        /\ last.call.func_called
        /\ last.call.stored
        /\ last.call.record # NoneV

\* C22: for every version string v and every bump kind k, bump(v, k) is a valid
\* semantic version and parse(bump(v, k)) is strictly greater than parse(v) in the
\* lexicographic (major, minor, patch) order, so a chain of bumps is strictly
\* increasing.
C22_BumpValidAndGreater ==
    last.op = "bump_version" =>
        /\ last.kind = "ok"
        /\ is_valid_version(PyStr(last.call.value[2]))
        /\ ~parse_version_parts_raises(last.call.value[2])
        /\ TupleLess(parse_version_parts(last.arg.arg.s),
                     parse_version_parts(last.call.value[2]))

\* The adds that completed on an instance
DoneBy(s) == SelectSeq(hist.done, LAMBDA d : d.s = s)

\* Every entry of the document before is an entry of the document after, but for key
CarriedOver(before, after, key) ==
    /\ after.ok
    /\ \A i \in 1..Len(before.items) :
           before.items[i][1] # key => before.items[i] \in Range(after.items)

\* C23: the snapshot a store loads at construction is the most recently modified file
\* matching prompts_*.json, whichever label wrote it: a store constructed with label A
\* after a store with label B completed an add in the same root starts with B's full
\* index, and its own first add writes those records into a snapshot named with
\* label A.
C23_LoadsNewestOfAnyLabel ==
    /\ (last.op = "__init__" /\ last.s = 2 /\ hist.calls = Len(hist.done)
            /\ hist.done[Len(hist.done)].s = 1) =>
           /\ last.kind = "ok"
           /\ last.log = << <<"timestamped", "">> >>
           /\ stores[2].prompts = RecordsOf(NewestSnapshot)
           /\ SameIndex(stores[2].prompts, stores[1].prompts)
    /\ (last.op = "add_prompt" /\ last.s = 2 /\ last.kind = "ok" /\ Len(DoneBy(2)) = 1) =>
           /\ SnapshotName(stores[2].label, clock) \in DOMAIN tsFiles
           /\ CarriedOver(DoneBy(1)[Len(DoneBy(1))].content,
                          tsFiles[SnapshotName(stores[2].label, clock)].content,
                          AddKey(last.arg))

====
